---- MODULE Spec2Model ----
(***************************************************************************)
(* Model of the PG analysis dashboard script (src/app.py).                 *)
(*                                                                         *)
(* The script is run top to bottom: select dates, load the batches,        *)
(* concatenate, check the required columns, normalise the text fields,     *)
(* bucket the status, filter, group and summarise, sort, render/export and *)
(* (first draft only) replace the Firestore collection pipe_summary.       *)
(*                                                                         *)
(* Python strings are modelled as sequences of one-character strings, so   *)
(* that strip(), lower(), the `in` substring test, string concatenation    *)
(* and the lexicographic order used by groupby are computed, not assumed.  *)
(* A pandas missing value (NaN) is the one-element sequence NaN.           *)
(* "Success %" is kept in hundredths of a percent (5000 = 50.00).          *)
(***************************************************************************)
EXTENDS Integers, Sequences, FiniteSets, TLC

VARIABLES
    storage,         \* what the bucket (or data folder) gives for each date
    pc,              \* position of the script run
    selected_dates,  \* st.multiselect result, in selection order
    all_data,        \* list of loaded DataFrames (raw, tagged with __source_date)
    load_durations,  \* keys of the load_durations dict, in insertion order
    df,              \* the concatenated DataFrame, normalised in place
    filtered_df,     \* rows of df whose status is success or failed
    summary,         \* the summary DataFrame (a sequence of Aggregate Rows)
    sort_option,     \* st.selectbox choice
    csv,             \* summary.to_csv(index=False): header line and one line per row
    offered,         \* widgets rendered after the table: download button, upload button
    remote,          \* Firestore collection pipe_summary: document id -> body
    remote0,         \* the collection as it was when the run started
    upload_exc,      \* whether the upload handler ended in its except block
    ui               \* the st.info / st.warning / st.error / st.success calls so far

vars == <<storage, pc, selected_dates, all_data, load_durations, df, filtered_df, summary,
          sort_option, csv, offered, remote, remote0, upload_exc, ui>>

----------------------------------------------------------------------------
(* Bounds of the model *)

\* at most this many dates are picked in the multiselect
MaxSelected == 2

\* the aggregation is checked on every record sequence up to this length
MaxRecs == 3

\* status texts are built from up to this many words
MaxWords == 2

----------------------------------------------------------------------------
(* Python str, modelled as a sequence of characters *)

Whitespace == {" ", "\t"}

UpperLetters == <<"A","B","C","D","E","F","G","H","I","J","K","L","M",
                  "N","O","P","Q","R","S","T","U","V","W","X","Y","Z">>

LowerLetters == <<"a","b","c","d","e","f","g","h","i","j","k","l","m",
                  "n","o","p","q","r","s","t","u","v","w","x","y","z">>

\* the characters of the model in code-point order (str comparison)
Alphabet == <<"\t", " ", "-", "0", "1", "2", "3", "4", "5", "6", "7", "8", "9">>
            \o UpperLetters \o <<"_">> \o LowerLetters

CharOrd(c) == CHOOSE i \in 1..Len(Alphabet) : Alphabet[i] = c

\* str.lower() on one character
LowerChar(c) ==
    IF \E i \in 1..Len(UpperLetters) : UpperLetters[i] = c
    THEN LowerLetters[CHOOSE i \in 1..Len(UpperLetters) : UpperLetters[i] = c]
    ELSE c

\* str.lower()
Lower(s) == [i \in 1..Len(s) |-> LowerChar(s[i])]

RECURSIVE LStrip(_)
LStrip(s) ==
    IF s = <<>> THEN s
    ELSE IF Head(s) \in Whitespace THEN LStrip(Tail(s)) ELSE s

RECURSIVE RStrip(_)
RStrip(s) ==
    IF s = <<>> THEN s
    ELSE IF s[Len(s)] \in Whitespace THEN RStrip(SubSeq(s, 1, Len(s) - 1)) ELSE s

\* str.strip()
Strip(s) == RStrip(LStrip(s))

\* the Python test `pat in s`
Contains(s, pat) ==
    \E i \in 1..(Len(s) - Len(pat) + 1) : SubSeq(s, i, i + Len(pat) - 1) = pat

\* s < t for Python str (lexicographic by code point)
RECURSIVE StrLess(_, _)
StrLess(s, t) ==
    IF t = <<>> THEN FALSE
    ELSE IF s = <<>> THEN TRUE
    ELSE IF Head(s) = Head(t) THEN StrLess(Tail(s), Tail(t))
    ELSE CharOrd(Head(s)) < CharOrd(Head(t))

\* a missing value of a DataFrame cell
NaN == <<"<NaN>">>

\* str(v) / astype(str) of a cell: text stays, a missing value prints as nan
AsTypeStr(v) == IF v = NaN THEN <<"n","a","n">> ELSE v

sUnknown == <<"U","n","k","n","o","w","n">>
sSuccess == <<"s","u","c","c","e","s","s">>
sFail    == <<"f","a","i","l">>
sFailed  == <<"f","a","i","l","e","d">>
sOther   == <<"o","t","h","e","r">>

----------------------------------------------------------------------------
(* Status bucketing *)

normalize_status_failFirst(val) ==
    LET v == Strip(Lower(AsTypeStr(val)))
    IN  IF Contains(v, sFail) THEN sFailed
        ELSE IF Contains(v, sSuccess) THEN sSuccess
        ELSE sOther

normalize_status(val) ==
    LET v == Strip(Lower(AsTypeStr(val)))
    IN  IF Contains(v, sSuccess) THEN sSuccess
        ELSE IF Contains(v, sFail) THEN sFailed
        ELSE sOther

----------------------------------------------------------------------------
(* DataFrames: a set of column labels and a sequence of rows, each row a   *)
(* function from the column labels to cell values                          *)

required_cols == {"client_code", "pg_pay_mode", "payment_mode", "status"}

text_cols == required_cols \cup {"client_name"}

EmptyFrame == [cols |-> {}, rows |-> <<>>]

\* df[col] = value for every row (adds the column when it is new)
SetColumn(t, col, value) ==
    [cols |-> t.cols \cup {col},
     rows |-> [i \in 1..Len(t.rows) |->
                 [c \in t.cols \cup {col} |->
                    IF c = col THEN value ELSE t.rows[i][c]]]]

\* df[col] = df[col].astype(str).str.strip()
StripColumn(t, col) ==
    [cols |-> t.cols,
     rows |-> [i \in 1..Len(t.rows) |->
                 [c \in t.cols |->
                    IF c = col THEN Strip(AsTypeStr(t.rows[i][c]))
                    ELSE t.rows[i][c]]]]

\* df[col] = df[col].astype(str).str.strip().str.lower()
StripLowerColumn(t, col) ==
    [cols |-> t.cols,
     rows |-> [i \in 1..Len(t.rows) |->
                 [c \in t.cols |->
                    IF c = col THEN Lower(Strip(AsTypeStr(t.rows[i][c])))
                    ELSE t.rows[i][c]]]]

\* df["status"] = df["status"].apply(normalize_status)
ApplyNormalizeStatus(t) ==
    [cols |-> t.cols,
     rows |-> [i \in 1..Len(t.rows) |->
                 [c \in t.cols |->
                    IF c = "status" THEN normalize_status(t.rows[i][c])
                    ELSE t.rows[i][c]]]]

\* one frame re-indexed on a wider column set: absent cells are NaN
Reindex(t, cols) ==
    [i \in 1..Len(t.rows) |->
        [c \in cols |-> IF c \in t.cols THEN t.rows[i][c] ELSE NaN]]

RECURSIVE ConcatRows(_, _)
ConcatRows(frames, cols) ==
    IF frames = <<>> THEN <<>>
    ELSE Reindex(Head(frames), cols) \o ConcatRows(Tail(frames), cols)

\* pd.concat(frames, ignore_index=True): the union of the columns, the rows
\* in list order
Concat(frames) ==
    LET cols == UNION {frames[i].cols : i \in 1..Len(frames)}
    IN  [cols |-> cols, rows |-> ConcatRows(frames, cols)]

\* df[df["status"].isin(["success", "failed"])]: the rows kept, in order
RECURSIVE IsInSuccessFailed(_)
IsInSuccessFailed(rows) ==
    IF rows = <<>> THEN <<>>
    ELSE IF Head(rows)["status"] \in {sSuccess, sFailed}
         THEN <<Head(rows)>> \o IsInSuccessFailed(Tail(rows))
         ELSE IsInSuccessFailed(Tail(rows))

----------------------------------------------------------------------------
(* The CSV files that a selected date may hold *)

vAcme == <<"A","c","m","e">>
vBeta == <<"B","e","t","a">>
vC1   == <<"C","1">>
vC1sp == <<" ","C","1">>
vC2   == <<"C","2">>
vBOB  == <<"B","O","B">>
vUPI  == <<"U","P","I">>
vCARD == <<"C","A","R","D">>

txtSUCCESS  == <<"S","U","C","C","E","S","S">>
txtSuccessSp == <<"S","u","c","c","e","s","s"," ">>
txtLcSuccess  == <<"s","u","c","c","e","s","s">>
txtFailedTimeout  == <<"F","a","i","l","e","d"," ","-"," ","t","i","m","e","o","u","t">>
txtLcFail     == <<"f","a","i","l">>
txtPending  == <<"p","e","n","d","i","n","g">>

RawRow(name, code, route, mode, status) ==
    [client_name |-> name, client_code |-> code, pg_pay_mode |-> route,
     payment_mode |-> mode, status |-> status]

Frame(cols, rows) ==
    [cols |-> cols, rows |-> [i \in 1..Len(rows) |-> [c \in cols |-> rows[i][c]]]]

\* all five columns; one success, one failure, one row that is neither
FileMixed ==
    Frame(text_cols, <<RawRow(vAcme, vC1, vBOB, vUPI, txtSUCCESS),
                       RawRow(vAcme, vC1sp, vBOB, vUPI, txtFailedTimeout),
                       RawRow(vAcme, vC1, vBOB, vUPI, txtPending)>>)

\* no client_name column
FileNoName ==
    Frame(required_cols, <<RawRow(NaN, vC1, vBOB, vUPI, txtLcSuccess),
                           RawRow(NaN, vC2, vBOB, vCARD, txtLcFail)>>)

\* no status column
FileNoStatus ==
    Frame(text_cols \ {"status"}, <<RawRow(vAcme, vC2, vBOB, vUPI, NaN)>>)

\* all five columns, no success or failed transaction
FilePending ==
    Frame(text_cols, <<RawRow(vAcme, vC1, vBOB, vUPI, txtPending)>>)

\* all five columns, one client code under two client names
FileTwoNames ==
    Frame(text_cols, <<RawRow(vAcme, vC2, vBOB, vUPI, txtSUCCESS),
                       RawRow(vBeta, vC2, vBOB, vUPI, txtSuccessSp)>>)

Files == {FileMixed, FileNoName, FileNoStatus, FilePending, FileTwoNames}

\* the outcome of a load that raises
LoadFailure == [cols |-> {"<load failed>"}, rows |-> <<>>]

available_dates == {"2024-01-01", "2024-01-02", "2024-01-03"}

----------------------------------------------------------------------------
(* Loading the selected batches *)

Msg(kind, text, arg) == [kind |-> kind, text |-> text, arg |-> arg]

\* every way to pick up to MaxSelected dates, in the order they were picked
Selections ==
    {sel \in UNION {[1..n -> available_dates] : n \in 0..MaxSelected} :
        \A i, j \in DOMAIN sel : i # j => sel[i] # sel[j]}

\* a mutant of the load loop: the first failing batch ends the loop
RECURSIVE LoadLoop_breakOnError(_, _, _)
LoadLoop_breakOnError(dates, outcome, i) ==
    IF i > Len(dates) THEN [all_data |-> <<>>, load_durations |-> <<>>, errors |-> <<>>]
    ELSE IF outcome[i] = LoadFailure
         THEN [all_data |-> <<>>, load_durations |-> <<>>,
               errors |-> <<Msg("error", "Error loading", {dates[i]})>>]
         ELSE LET rest == LoadLoop_breakOnError(dates, outcome, i + 1)
              IN  [all_data |-> <<SetColumn(outcome[i], "__source_date", dates[i])>>
                                  \o rest.all_data,
                   load_durations |-> <<dates[i]>> \o rest.load_durations,
                   errors |-> rest.errors]

\* the for loop over selected_dates from position i on: what it appends to
\* all_data, the keys it adds to load_durations, the errors it reports.
\* outcome[i] is the DataFrame read for dates[i], or LoadFailure when the
\* download or the parse raises (or, in the local draft, the file is absent).
RECURSIVE LoadLoop(_, _, _)
LoadLoop(dates, outcome, i) ==
    IF i > Len(dates) THEN [all_data |-> <<>>, load_durations |-> <<>>, errors |-> <<>>]
    ELSE LET rest == LoadLoop(dates, outcome, i + 1)
         IN  IF outcome[i] = LoadFailure
             THEN [all_data |-> rest.all_data,
                   load_durations |-> rest.load_durations,
                   errors |-> <<Msg("error", "Error loading", {dates[i]})>> \o rest.errors]
             ELSE [all_data |-> <<SetColumn(outcome[i], "__source_date", dates[i])>>
                                  \o rest.all_data,
                   load_durations |-> <<dates[i]>> \o rest.load_durations,
                   errors |-> rest.errors]

----------------------------------------------------------------------------
(* Group and summarize *)

Key4(r) == <<r["client_name"], r["client_code"], r["pg_pay_mode"], r["payment_mode"]>>

Key5(r) == <<Key4(r), r["status"]>>

\* a mutant of the grouping: only adjacent rows are grouped, a later run of
\* a key replacing an earlier one
GroupSize_adjacentRuns(rows) ==
    [k \in {Key5(rows[i]) : i \in 1..Len(rows)} |->
        LET last  == CHOOSE i \in 1..Len(rows) :
                        /\ Key5(rows[i]) = k
                        /\ \A j \in (i + 1)..Len(rows) : Key5(rows[j]) # k
            first == CHOOSE i \in 1..last :
                        /\ \A j \in i..last : Key5(rows[j]) = k
                        /\ i > 1 => Key5(rows[i - 1]) # k
        IN  last - first + 1]

\* groupby([... 5 columns ...]).size(): the number of rows of every
\* combination of the five columns that occurs
GroupSize(rows) ==
    [k \in {Key5(rows[i]) : i \in 1..Len(rows)} |->
        Cardinality({i \in 1..Len(rows) : Key5(rows[i]) = k})]

\* tuple comparison of two group keys
RECURSIVE KeyLess(_, _)
KeyLess(a, b) ==
    IF a = <<>> THEN FALSE
    ELSE IF Head(a) = Head(b) THEN KeyLess(Tail(a), Tail(b))
    ELSE StrLess(Head(a), Head(b))

\* the group keys in the sorted order groupby gives its result
RECURSIVE SortedIndex(_)
SortedIndex(keys) ==
    IF keys = {} THEN <<>>
    ELSE LET least == CHOOSE k \in keys : \A o \in keys \ {k} : KeyLess(k, o)
         IN  <<least>> \o SortedIndex(keys \ {least})

\* .unstack(fill_value=0).reset_index(): one row per 4-column key, one count
\* column per status that occurs, 0 where a key has no row of that status
Unstack(sizes) ==
    LET index   == SortedIndex({k[1] : k \in DOMAIN sizes})
        columns == {k[2] : k \in DOMAIN sizes}
    IN  [i \in 1..Len(index) |->
            [key |-> index[i],
             counts |-> [c \in columns |->
                           IF <<index[i], c>> \in DOMAIN sizes
                           THEN sizes[<<index[i], c>>] ELSE 0]]]

\* summary[col] after the loop that adds a missing success/failed column as 0
CountColumn(row, col) == IF col \in DOMAIN row.counts THEN row.counts[col] ELSE 0

TotalTxn_successOnly(success, failed) == success

\* summary["Total Txn"]
TotalTxn(success, failed) == success + failed

\* round(n / d, 0) as numpy rounds: halves go to the even neighbour
RoundHalfEven(n, d) ==
    LET q == n \div d
        r == n % d
    IN  IF 2 * r < d THEN q
        ELSE IF 2 * r > d THEN q + 1
        ELSE IF q % 2 = 0 THEN q ELSE q + 1

\* summary["Success %"] in hundredths of a percent; 0/0 is NaN, filled with 0
SuccessPct(success, total) ==
    IF total = 0 THEN 0 ELSE RoundHalfEven(success * 10000, total)

SummaryRow(u) ==
    LET s == CountColumn(u, sSuccess)
        f == CountColumn(u, sFailed)
        t == TotalTxn(s, f)
    IN  [client_name |-> u.key[1], client_code |-> u.key[2],
         pg_pay_mode |-> u.key[3], payment_mode |-> u.key[4],
         success |-> s, failed |-> f, Total_Txn |-> t,
         Success_pct |-> SuccessPct(s, t)]

\* the summary DataFrame of a filtered frame's rows
Summarize(rows) ==
    LET u == Unstack(GroupSize(rows))
    IN  [i \in 1..Len(u) |-> SummaryRow(u[i])]

----------------------------------------------------------------------------
(* Sorting, export and upload *)

SortOptions == {"ALL", "Lowest to Highest", "Highest to Lowest"}

Reorderings(rows) ==
    {[i \in 1..Len(rows) |-> rows[p[i]]] :
        p \in {q \in [1..Len(rows) -> 1..Len(rows)] :
                  \A i, j \in 1..Len(rows) : i # j => q[i] # q[j]}}

\* summary.sort_values("Success %", ascending=...), called without kind=:
\* the default kind is quicksort, which is not stable, so every reordering
\* that is ordered by the column is a possible result
SortValues(rows, ascending) ==
    {s \in Reorderings(rows) :
        \A i, j \in 1..Len(s) :
            i < j => IF ascending THEN s[i].Success_pct <= s[j].Success_pct
                     ELSE s[i].Success_pct >= s[j].Success_pct}

\* the results the chosen sort option can give
Sorted(rows, option) ==
    IF option = "Lowest to Highest" THEN SortValues(rows, TRUE)
    ELSE IF option = "Highest to Lowest" THEN SortValues(rows, FALSE)
    ELSE {rows}

CsvHeader == <<"client_name", "client_code", "pg_pay_mode", "payment_mode",
               "success", "failed", "Total Txn", "Success %">>

\* summary.to_csv(index=False): the header line, then the cells of each row
\* in column order
ToCsv(rows) ==
    <<CsvHeader>> \o
    [i \in 1..Len(rows) |->
        <<rows[i].client_name, rows[i].client_code, rows[i].pg_pay_mode,
          rows[i].payment_mode, rows[i].success, rows[i].failed,
          rows[i].Total_Txn, rows[i].Success_pct>>]

\* doc_id = f"{client_code}_{pg_pay_mode}_{payment_mode}"
DocId(row) ==
    row.client_code \o <<"_">> \o row.pg_pay_mode \o <<"_">> \o row.payment_mode

\* the collection without the documents of ids
DeleteDocs(coll, ids) == [k \in DOMAIN coll \ ids |-> coll[k]]

\* document(id).set(data): creates the document or overwrites it
SetDoc(coll, id, data) ==
    [k \in DOMAIN coll \cup {id} |-> IF k = id THEN data ELSE coll[k]]

\* the collection after the first n rows were written, in row order
RECURSIVE InsertRows(_, _, _)
InsertRows(coll, rows, n) ==
    IF n = 0 THEN coll
    ELSE SetDoc(InsertRows(coll, rows, n - 1), DocId(rows[n]), rows[n])

UploadReport_alwaysSuccess(failed) == <<Msg("success", "Uploaded to Firebase Firestore", {})>>

\* what the handler tells the user: st.success at the end of the try block,
\* st.error in the except block
UploadReport(failed) ==
    IF failed THEN <<Msg("error", "Firebase upload failed", {})>>
    ELSE <<Msg("success", "Uploaded to Firebase Firestore", {})>>

----------------------------------------------------------------------------
(* The script run *)

OldRow1 ==
    [client_name |-> vAcme, client_code |-> vC1, pg_pay_mode |-> vBOB,
     payment_mode |-> vUPI, success |-> 3, failed |-> 1, Total_Txn |-> 4,
     Success_pct |-> 7500]

OldRow2 ==
    [client_name |-> vBeta, client_code |-> <<"C","9">>, pg_pay_mode |-> vBOB,
     payment_mode |-> vCARD, success |-> 0, failed |-> 2, Total_Txn |-> 2,
     Success_pct |-> 0]

\* what pipe_summary may hold when a run starts: nothing, or an earlier upload
InitialCollections == {<<>>, InsertRows(<<>>, <<OldRow1, OldRow2>>, 2)}

Init ==
    /\ storage \in [available_dates -> Files \cup {LoadFailure}]
    /\ pc = "select"
    /\ selected_dates = <<>>
    /\ all_data = <<>>
    /\ load_durations = <<>>
    /\ df = EmptyFrame
    /\ filtered_df = EmptyFrame
    /\ summary = <<>>
    /\ sort_option = "ALL"
    /\ csv = <<>>
    /\ offered = {}
    /\ remote \in InitialCollections
    /\ remote0 = remote
    /\ upload_exc = FALSE
    /\ ui = <<>>

\* selected_dates = st.multiselect(...); nothing selected: st.info, st.stop
SelectDates ==
    /\ pc = "select"
    /\ \E sel \in Selections :
        /\ selected_dates' = sel
        /\ IF sel = <<>>
           THEN /\ ui' = Append(ui, Msg("info", "Please select at least one date", {}))
                /\ pc' = "stopped"
           ELSE /\ ui' = ui
                /\ pc' = "load"
    /\ UNCHANGED <<all_data, load_durations, df, filtered_df, summary, sort_option,
                   csv, offered, remote, remote0, upload_exc, storage>>

\* the load loop, then: nothing loaded: st.warning, st.stop
LoadBatches ==
    /\ pc = "load"
    /\ LET outcome == [i \in 1..Len(selected_dates) |-> storage[selected_dates[i]]]
           got == LoadLoop(selected_dates, outcome, 1)
       IN   /\ all_data' = got.all_data
            /\ load_durations' = got.load_durations
            /\ IF got.all_data = <<>>
               THEN /\ ui' = ui \o got.errors
                             \o <<Msg("warning", "No valid files loaded", {})>>
                    /\ pc' = "stopped"
               ELSE /\ ui' = ui \o got.errors
                    /\ pc' = "concat"
    /\ UNCHANGED <<selected_dates, df, filtered_df, summary, sort_option, csv,
                   offered, remote, remote0, upload_exc, storage>>

\* df = pd.concat(all_data); a required column not in df.columns: st.error, st.stop
ConcatAndCheckColumns ==
    /\ pc = "concat"
    /\ LET d == Concat(all_data)
           missing == {col \in required_cols : col \notin d.cols}
       IN  /\ df' = d
           /\ IF missing # {}
              THEN /\ ui' = Append(ui, Msg("error", "Missing columns", missing))
                   /\ pc' = "stopped"
              ELSE /\ ui' = ui
                   /\ pc' = "normalize"
    /\ UNCHANGED <<selected_dates, all_data, load_durations, filtered_df, summary,
                   sort_option, csv, offered, remote, remote0, upload_exc, storage>>

\* the client_name default and the five astype(str).str.strip() lines
Normalized(d) ==
    LET d0 == IF "client_name" \notin d.cols
              THEN SetColumn(d, "client_name", sUnknown) ELSE d
        d1 == StripLowerColumn(d0, "status")
        d2 == StripColumn(d1, "pg_pay_mode")
        d3 == StripColumn(d2, "payment_mode")
        d4 == StripColumn(d3, "client_code")
    IN  StripColumn(d4, "client_name")

NormalizeFields ==
    /\ pc = "normalize"
    /\ df' = Normalized(df)
    /\ pc' = "map_status"
    /\ UNCHANGED <<selected_dates, all_data, load_durations, filtered_df, summary,
                   sort_option, csv, offered, remote, remote0, upload_exc, storage, ui>>

\* mutants of the empty check after the filter
StopsWhenEmpty_never(f) == FALSE

\* if filtered_df.empty
StopsWhenEmpty(f) == f.rows = <<>>

\* df["status"].apply(normalize_status), the success/failed filter, and:
\* no row left: st.warning, st.stop
MapStatusAndFilter ==
    /\ pc = "map_status"
    /\ LET d == ApplyNormalizeStatus(df)
           f == [cols |-> d.cols, rows |-> IsInSuccessFailed(d.rows)]
       IN  /\ df' = d
           /\ filtered_df' = f
           /\ IF StopsWhenEmpty(f)
              THEN /\ ui' = Append(ui, Msg("warning", "No success or failed transactions", {}))
                   /\ pc' = "stopped"
              ELSE /\ ui' = ui
                   /\ pc' = "group"
    /\ UNCHANGED <<selected_dates, all_data, load_durations, summary, sort_option,
                   csv, offered, remote, remote0, upload_exc, storage>>

\* summary = filtered_df.groupby(...).size().unstack(...) and its derived columns
GroupAndSummarize ==
    /\ pc = "group"
    /\ summary' = Summarize(filtered_df.rows)
    /\ pc' = "sort"
    /\ UNCHANGED <<selected_dates, all_data, load_durations, df, filtered_df,
                   sort_option, csv, offered, remote, remote0, upload_exc, storage, ui>>

\* sort_option = st.selectbox(...); summary = summary.sort_values(...)
SortSummary ==
    /\ pc = "sort"
    /\ \E option \in SortOptions :
        /\ sort_option' = option
        /\ summary' \in Sorted(summary, option)
    /\ pc' = "render"
    /\ UNCHANGED <<selected_dates, all_data, load_durations, df, filtered_df, csv,
                   offered, remote, remote0, upload_exc, storage, ui>>

\* st.dataframe, the caption, the CSV bytes, the download and upload buttons
Render ==
    /\ pc = "render"
    /\ csv' = ToCsv(summary)
    /\ offered' = {"dataframe", "download_button", "upload_button"}
    /\ pc' = "rendered"
    /\ UNCHANGED <<selected_dates, all_data, load_durations, df, filtered_df,
                   summary, sort_option, remote, remote0, upload_exc, storage, ui>>

\* the upload button was not clicked: the run ends after rendering
EndRun ==
    /\ pc = "rendered"
    /\ pc' = "done"
    /\ UNCHANGED <<selected_dates, all_data, load_durations, df, filtered_df,
                   summary, sort_option, csv, offered, remote, remote0, upload_exc, storage, ui>>

\* the upload button was clicked. The handler deletes every streamed document,
\* then writes one document per summary row; any call may raise, which ends
\* the try block at that point.
UploadToFirebase ==
    /\ pc = "rendered"
    /\ \/ \E deleted \in SUBSET DOMAIN remote :     \* raised while deleting
            /\ remote' = DeleteDocs(remote, deleted)
            /\ upload_exc' = TRUE
            /\ ui' = ui \o UploadReport(TRUE)
       \/ \E n \in 0..(Len(summary) - 1) :          \* raised on row n + 1
            /\ remote' = InsertRows(<<>>, summary, n)
            /\ upload_exc' = TRUE
            /\ ui' = ui \o UploadReport(TRUE)
       \/ /\ remote' = InsertRows(<<>>, summary, Len(summary))
          /\ upload_exc' = FALSE
          /\ ui' = ui \o UploadReport(FALSE)
    /\ pc' = "done"
    /\ UNCHANGED <<selected_dates, all_data, load_durations, df, filtered_df,
                   summary, sort_option, csv, offered, remote0, storage>>

Next ==
    \/ SelectDates
    \/ LoadBatches
    \/ ConcatAndCheckColumns
    \/ NormalizeFields
    \/ MapStatusAndFilter
    \/ GroupAndSummarize
    \/ SortSummary
    \/ Render
    \/ EndRun
    \/ UploadToFirebase

Spec == Init /\ [][Next]_vars

----------------------------------------------------------------------------
(* Status bucketing on its own: a run that has loaded one batch of one row, *)
(* whose status text is drawn from StatusTexts, taken through the two       *)
(* steps that normalise and bucket it                                       *)

Words ==
    {sSuccess, txtSUCCESS, <<"S","u","c","C","e","s","s">>, sFail,
     <<"F","A","I","L","E","D">>, txtPending, <<"s","u","c","c","e","s">>, <<"s">>}

Separators == {<<>>, <<" ">>}

RECURSIVE WordSeqs(_)
WordSeqs(n) ==
    IF n = 0 THEN {<<>>}
    ELSE WordSeqs(n - 1) \cup
         {w \o sep \o t : w \in Words, sep \in Separators, t \in WordSeqs(n - 1)}

StatusTexts ==
    {l \o t \o r : l \in {<<>>, <<" ">>}, r \in {<<>>, <<"\t">>},
                   t \in WordSeqs(MaxWords)}

OneDate == "2024-01-01"

\* the state of a run that has loaded the single batch f
Loaded(f) ==
    /\ storage = [d \in available_dates |-> IF d = OneDate THEN f ELSE LoadFailure]
    /\ selected_dates = <<OneDate>>
    /\ all_data = <<SetColumn(f, "__source_date", OneDate)>>
    /\ load_durations = <<OneDate>>
    /\ summary = <<>>
    /\ sort_option = "ALL"
    /\ csv = <<>>
    /\ offered = {}
    /\ remote = <<>>
    /\ remote0 = <<>>
    /\ upload_exc = FALSE
    /\ ui = <<>>

InitNorm ==
    /\ \E txt \in StatusTexts :
          Loaded(Frame(text_cols, <<RawRow(vAcme, vC1, vBOB, vUPI, txt)>>))
    /\ df = Concat(all_data)
    /\ filtered_df = EmptyFrame
    /\ pc = "normalize"

NextNorm == NormalizeFields \/ MapStatusAndFilter

SpecNorm == InitNorm /\ [][NextNorm]_vars

----------------------------------------------------------------------------
(* Aggregation on its own: a run that is about to group, having loaded,    *)
(* normalised and filtered any sequence of up to MaxRecs success/failed    *)
(* records                                                                 *)

NormKeys == {<<vAcme, vC1>>, <<vAcme, vC2>>, <<NaN, vC1>>}

NormRecs ==
    {RawRow(k[1], k[2], vBOB, vUPI, st) : k \in NormKeys, st \in {sSuccess, sFailed}}

RecSeqs == UNION {[1..n -> NormRecs] : n \in 1..MaxRecs}

InitAgg ==
    /\ \E rows \in RecSeqs : Loaded(Frame(text_cols, rows))
    /\ df = ApplyNormalizeStatus(Normalized(Concat(all_data)))
    /\ filtered_df = [cols |-> df.cols, rows |-> IsInSuccessFailed(df.rows)]
    /\ pc = "group"

NextAgg == GroupAndSummarize

SpecAgg == InitAgg /\ [][NextAgg]_vars

----------------------------------------------------------------------------
(* Vocabulary of the properties *)

Last(seq) == seq[Len(seq)]

\* the rows of the concatenated input as they were loaded
RawFrame == Concat(all_data)

ReportedLast(text) == ui # <<>> /\ Last(ui).text = text

\* the column check has run on a concatenated input
ColumnCheckDone == all_data # <<>> /\ pc \notin {"select", "load", "concat"}

\* the text fields of df have been normalised
FieldsNormalized ==
    \/ pc \in {"map_status", "group", "sort", "render", "rendered", "done"}
    \/ pc = "stopped" /\ ReportedLast("No success or failed transactions")

\* the status column of df has been bucketed and the filter applied
StatusMapped ==
    \/ pc \in {"group", "sort", "render", "rendered", "done"}
    \/ pc = "stopped" /\ ReportedLast("No success or failed transactions")

SameLetter(c, d) ==
    \/ c = d
    \/ \E k \in 1..Len(UpperLetters) : {c, d} = {UpperLetters[k], LowerLetters[k]}

\* word occurs in text, in any case and with any surrounding text
OccursIn(text, word) ==
    \E i \in 1..(Len(text) - Len(word) + 1) :
        \A j \in 1..Len(word) : SameLetter(text[i + j - 1], word[j])

ExpectedBucket(text) ==
    IF OccursIn(text, sSuccess) THEN sSuccess
    ELSE IF OccursIn(text, sFail) THEN sFailed
    ELSE sOther

----------------------------------------------------------------------------
(* C1: when a loaded batch lacks a required column, the run halts with the  *)
(* missing-column error even if the other loaded batches have all four     *)
(* columns: no Aggregate Row is produced, no export or sync is offered.    *)
(* Stated as the claim has it; the script does not behave so.              *)
C1_AnyBatchLackingColumnHalts ==
    (/\ ColumnCheckDone
     /\ \E i \in 1..Len(all_data) : ~(required_cols \subseteq all_data[i].cols))
    => /\ pc = "stopped"
       /\ ReportedLast("Missing columns")
       /\ summary = <<>>
       /\ offered = {}

----------------------------------------------------------------------------
(* C2: every status text is bucketed into exactly one of success, failed,  *)
(* other: success when it contains "success" in any case and with any      *)
(* surrounding text, otherwise failed when it contains "fail", otherwise   *)
(* other; a text with both words is success.                               *)
C2_StatusBucketing ==
    StatusMapped =>
        \A i \in 1..Len(df.rows) :
            LET text == RawFrame.rows[i]["status"]
            IN  text # NaN =>
                  /\ df.rows[i]["status"] \in {sSuccess, sFailed, sOther}
                  /\ df.rows[i]["status"] = ExpectedBucket(text)

\* a padded, upper-case text with both words has been bucketed as success
C2_Witness ==
    /\ StatusMapped
    /\ \E i \in 1..Len(df.rows) :
        LET text == RawFrame.rows[i]["status"]
        IN  /\ text # NaN
            /\ OccursIn(text, sSuccess) /\ OccursIn(text, sFail)
            /\ ~Contains(text, sSuccess) /\ ~Contains(text, sFail)
            /\ Strip(text) # text
            /\ df.rows[i]["status"] = sSuccess

----------------------------------------------------------------------------
(* C3: after an upload that ended without error the collection holds       *)
(* exactly the rows of the view: as many documents as rows, every row the  *)
(* body of a document, and no other document.                              *)
(* Stated as the claim has it; the script does not behave so.              *)
C3_RemoteEqualsView ==
    (pc = "done" /\ ui # <<>> /\ Last(ui).kind = "success") =>
        /\ Cardinality(DOMAIN remote) = Len(summary)
        /\ \A i \in 1..Len(summary) : \E id \in DOMAIN remote : remote[id] = summary[i]
        /\ \A id \in DOMAIN remote : \E i \in 1..Len(summary) : remote[id] = summary[i]

----------------------------------------------------------------------------
(* C4: every Aggregate Row has non-negative counts, a total that is their  *)
(* sum and is positive, a success rate between 0 and 100, and a key that   *)
(* some success/failed record carries.                                     *)
C4_AggregateRowInvariants ==
    pc = "sort" =>
        \A i \in 1..Len(summary) :
            LET r == summary[i]
            IN  /\ r.success >= 0
                /\ r.failed >= 0
                /\ r.Total_Txn = r.success + r.failed
                /\ r.Total_Txn > 0
                /\ 0 <= r.Success_pct /\ r.Success_pct <= 100 * 100
                /\ \E j \in 1..Len(filtered_df.rows) :
                      /\ filtered_df.rows[j]["status"] \in {sSuccess, sFailed}
                      /\ Key4(filtered_df.rows[j]) =
                           <<r.client_name, r.client_code, r.pg_pay_mode, r.payment_mode>>

\* several groups were produced, one of them with successes and failures
C4_Witness ==
    /\ pc = "sort"
    /\ Len(summary) >= 2
    /\ \E i \in 1..Len(summary) : summary[i].success > 0 /\ summary[i].failed > 0
    /\ \E i \in 1..Len(summary) : summary[i].success = 0

----------------------------------------------------------------------------
(* C5: after normalisation every record whose client display name is       *)
(* missing, because the column is absent from all loaded batches or        *)
(* because the cell is empty, has client_name "Unknown".                   *)
(* Stated as the claim has it; the script does not behave so.              *)
C5_MissingNameIsUnknown ==
    FieldsNormalized =>
        \A i \in 1..Len(df.rows) :
            ("client_name" \notin RawFrame.cols \/ RawFrame.rows[i]["client_name"] = NaN)
            => df.rows[i]["client_name"] = sUnknown

----------------------------------------------------------------------------
(* C6: a batch whose load fails is reported and left out; the batches that *)
(* loaded are kept, in selection order, and the run goes on to the column  *)
(* check; it halts before the column check exactly when no batch loaded.   *)

LoadedDates == SelectSeq(selected_dates, LAMBDA d : storage[d] # LoadFailure)

FailedDates == SelectSeq(selected_dates, LAMBDA d : storage[d] = LoadFailure)

LoadErrors == SelectSeq(ui, LAMBDA m : m.text = "Error loading")

\* for every row of the concatenated input, the date of its batch
RECURSIVE RowDates(_)
RowDates(dates) ==
    IF dates = <<>> THEN <<>>
    ELSE [i \in 1..Len(storage[Head(dates)].rows) |-> Head(dates)]
         \o RowDates(Tail(dates))

HaltedBeforeColumnCheck == pc = "stopped" /\ df = EmptyFrame

C6_FailedBatchSkipped ==
    pc \notin {"select", "load"} =>
        /\ load_durations = LoadedDates
        /\ Len(all_data) = Len(LoadedDates)
        /\ \A i \in 1..Len(all_data) :
              all_data[i] = SetColumn(storage[LoadedDates[i]], "__source_date",
                                      LoadedDates[i])
        /\ Len(LoadErrors) = Len(FailedDates)
        /\ \A i \in 1..Len(LoadErrors) :
              LoadErrors[i].kind = "error" /\ LoadErrors[i].arg = {FailedDates[i]}
        /\ HaltedBeforeColumnCheck <=> LoadedDates = <<>>
        /\ (LoadedDates # <<>> /\ pc # "concat") =>
              /\ Len(df.rows) = Len(RowDates(LoadedDates))
              /\ \A i \in 1..Len(df.rows) :
                    df.rows[i]["__source_date"] = RowDates(LoadedDates)[i]

\* the first selected batch failed, the second loaded, and the run went on
C6_Witness ==
    /\ Len(selected_dates) = 2
    /\ storage[selected_dates[1]] = LoadFailure
    /\ storage[selected_dates[2]] \notin {LoadFailure, FileNoStatus}
    /\ pc = "normalize"
    /\ Len(df.rows) > 0

----------------------------------------------------------------------------
(* C7: when the upload handler fails, in the delete phase or in the insert *)
(* phase, the user is told of an error and never of a success, and the     *)
(* summary table and the exported bytes stay as they were.                 *)
C7_FailedSyncReportedViewKept ==
    [][(pc = "rendered" /\ upload_exc') =>
          /\ Len(ui') = Len(ui) + 1
          /\ Last(ui').kind = "error"
          /\ \A i \in 1..Len(ui') : ui'[i].kind # "success"
          /\ summary' = summary
          /\ csv' = csv
          /\ offered' = offered
          /\ sort_option' = sort_option]_vars

\* a failed upload has left the collection partially populated
C7_Witness ==
    /\ pc = "done"
    /\ upload_exc
    /\ DOMAIN remote # {}
    /\ DOMAIN remote \cap DOMAIN remote0 = {}
    /\ Cardinality(DOMAIN remote) < Cardinality({DocId(summary[i]) : i \in 1..Len(summary)})
    /\ csv = ToCsv(summary)

----------------------------------------------------------------------------
(* C8: a run ends in an empty, non-error terminal state, with no Aggregate *)
(* Rows and neither export nor sync offered, whenever no date is selected  *)
(* or no success/failed record remains after normalisation; every other    *)
(* run that passes the column check reaches the aggregation.               *)

PassedColumnCheck == ColumnCheckDone /\ required_cols \subseteq RawFrame.cols

Filtered == PassedColumnCheck /\ pc \notin {"normalize", "map_status"}

NoSuccessOrFailed ==
    \A i \in 1..Len(df.rows) : df.rows[i]["status"] \notin {sSuccess, sFailed}

EmptyTerminal ==
    /\ pc = "stopped"
    /\ ui # <<>> /\ Last(ui).kind \in {"info", "warning"}
    /\ summary = <<>>
    /\ csv = <<>>
    /\ offered = {}
    /\ remote = remote0

C8_EmptyTerminalState ==
    /\ (pc # "select" /\ selected_dates = <<>>) => EmptyTerminal
    /\ (Filtered /\ NoSuccessOrFailed) => EmptyTerminal
    /\ (Filtered /\ ~NoSuccessOrFailed) =>
          /\ pc \in {"group", "sort", "render", "rendered", "done"}
          /\ pc # "group" => summary # <<>>

\* a run passed the column check and stopped because nothing was left
C8_Witness ==
    /\ Filtered
    /\ NoSuccessOrFailed
    /\ Len(df.rows) > 0
    /\ EmptyTerminal

----------------------------------------------------------------------------
(* C9: sorting by success rate keeps rows of equal rate in the order they  *)
(* had before the sort, and the option ALL leaves the order unchanged.     *)
(* Stated as the claim has it; the script does not behave so.              *)

PositionIn(rows, r) == CHOOSE i \in 1..Len(rows) : rows[i] = r

C9_SortIsStable ==
    [][pc = "sort" =>
          /\ \A i, j \in 1..Len(summary) :
                (i < j /\ summary[i].Success_pct = summary[j].Success_pct)
                => PositionIn(summary', summary[i]) < PositionIn(summary', summary[j])
          /\ sort_option' = "ALL" => summary' = summary]_vars

----------------------------------------------------------------------------
(* C10: every reordering of the success/failed records aggregates to the   *)
(* same multiset of Aggregate Rows: the same keys with the same counts.    *)

\* keys are distinct within a summary, so its multiset of rows is this set
\* together with the number of rows
KeyedCounts(rows) ==
    {<<rows[i].client_name, rows[i].client_code, rows[i].pg_pay_mode,
       rows[i].payment_mode, rows[i].success, rows[i].failed>> : i \in 1..Len(rows)}

C10_OrderIndependent ==
    pc = "sort" =>
        \A p \in Reorderings(filtered_df.rows) :
            LET other == Summarize(p)
            IN  /\ Len(other) = Len(summary)
                /\ KeyedCounts(other) = KeyedCounts(summary)

\* records of one key were interleaved with records of another
C10_Witness ==
    /\ pc = "sort"
    /\ Len(filtered_df.rows) >= 3
    /\ Key5(filtered_df.rows[1]) = Key5(filtered_df.rows[3])
    /\ Key5(filtered_df.rows[1]) # Key5(filtered_df.rows[2])
    /\ Len(summary) >= 2

====
